---- MODULE Spec2Model ----
(***************************************************************************)
(* Model of the website-analysis assistant: the bounded breadth-first      *)
(* crawler (app/scraper.py), the per-site vector index (app/vector_store.py),*)
(* the per-thread chat (app/ai.py) and the REST layer (app/main.py).       *)
(*                                                                         *)
(* Strings that the code inspects character by character (network          *)
(* locations, index names) are sequences of one-character strings.  A URL  *)
(* is the record urlparse() splits it into: scheme, netloc, path, frag.    *)
(***************************************************************************)
EXTENDS Integers, Sequences, FiniteSets, Bags, TLC

VARIABLES
    \* ---- scrape_website (app/scraper.py) ----
    start_url, max_depth, max_pages,   \* the arguments
    base_domain,                       \* urlparse(start_url).netloc
    queue,                             \* list of <<url, depth>>
    visited,                           \* set of urls
    results,                           \* list of [url, content]
    requested,                         \* every client.get(url) made, with its depth
    dropped,                           \* anchors that get_links has filtered out so far
    outcome,                           \* how the last iteration ended: "ok", "fetch_failed"
                                       \* (client.get, raise_for_status or clean_html raised)
                                       \* or "links_failed" (get_links raised)
    relinked,                          \* a link of the last page was already in visited
    crawl_pc,                          \* "loop" | "done"
    \* ---- VectorStoreManager (app/vector_store.py) ----
    pc_client,                         \* self.pc is set (PINECONE_API_KEY is configured)
    indexes,                           \* the Pinecone account: index name -> [embed, records]
    ix_op,                             \* the last index_website_content call, its outcome
                                       \* and its position (seq) among the calls
    q_op,                              \* the last query_context call, likewise
    vs_calls,                          \* number of calls made so far
    \* ---- AIService.chat_interaction (app/ai.py) ----
    checkpoints,                       \* the checkpoint store: thread_id -> list of messages
    next_id,                           \* checkpoint key -> number of the next fresh message id
    chat_log,                          \* thread_id -> the calls completed on it, in order
    chat_turns,                        \* number of calls made so far
    calls,                             \* the bag of chat_interaction calls in flight, each
                                       \* with its arguments, local variables and position
    irregular,                         \* thread_ids on which two calls overlapped or a call
                                       \* raised after graph.ainvoke had saved its input
    \* ---- the REST layer (app/main.py) ----
    api_log                            \* the requests sent so far, each with its outcome

crawl_vars == <<start_url, max_depth, max_pages, base_domain, queue, visited,
                results, requested, dropped, outcome, relinked, crawl_pc>>

vs_vars == <<pc_client, indexes, ix_op, q_op, vs_calls>>

chat_vars == <<checkpoints, next_id, chat_log, chat_turns, calls, irregular>>

api_vars == <<api_log>>

vars == <<crawl_vars, vs_vars, chat_vars, api_vars>>

\* What the actions of one part leave unchanged: the variables of the other parts.
not_crawl == <<vs_vars, chat_vars, api_vars>>
not_vs    == <<crawl_vars, chat_vars, api_vars>>
not_chat  == <<crawl_vars, vs_vars, api_vars>>
not_api   == <<crawl_vars, vs_vars, chat_vars>>

----------------------------------------------------------------------------
(* Bounds of the model *)

MaxDepthBound == 2
MaxPagesBound == 3
\* calls of the vector store in one run
MaxVsCalls == 2
\* calls of chat_interaction in one run
MaxChatTurns == 2
\* requests sent to the REST layer in one run
MaxRequests == 3
\* length of the long host label: with ".x" the host is longer than an index name
LongLabelLen == 41

----------------------------------------------------------------------------
(* URLs *)

Url(s, n, p, f) == [scheme |-> s, netloc |-> n, path |-> p, frag |-> f]

NetA  == <<"a", ".", "c">>
NetB  == <<"b", ".", "c">>

\* The absolute URLs (after urljoin) that the anchors of a page may carry.
LinkUniverse ==
    { Url("http",  NetA,  "/",  ""),
      Url("http",  NetA,  "/p", "x"),
      Url("https", NetA,  "/q", ""),
      Url("ftp",   NetA,  "/f", ""),
      Url("http",  NetB,  "/",  "") }

StartUrls ==
    { Url("http", NetA, "/",  ""),
      Url("http", NetA, "/p", "x"),
      Url("http", NetB, "/",  "") }

\* Text that clean_html extracts from a page, as the list of the pieces the
\* text splitter cuts it into: <<>> is the empty string.
Contents == {<<>>, <<"t1", "t2">>}

\* link.split("#")[0]
StripFragment(link) == [link EXCEPT !.frag = ""]

\* All orders in which list(set(links)) may enumerate a set.
Orders(S) ==
    { s \in [1..Cardinality(S) -> S] : \A i, j \in 1..Cardinality(S) : s[i] = s[j] => i = j }

----------------------------------------------------------------------------
(* Characters and strings.  A string is a sequence of one-character strings. *)

\* The printable ASCII characters, from code 32 to code 126 (the double quote,
\* the backslash and the backtick stand as words: they occur in no string of the model).
AsciiChars ==
    <<
       " ", "!", "quote", "#", "$", "%", "&", "'", "(", ")", "*", "+", ",", "-", ".", "/",
       "0", "1", "2", "3", "4", "5", "6", "7", "8", "9", ":", ";", "<", "=", ">", "?",
       "@", "A", "B", "C", "D", "E", "F", "G", "H", "I", "J", "K", "L", "M", "N", "O",
       "P", "Q", "R", "S", "T", "U", "V", "W", "X", "Y", "Z", "[", "backslash", "]", "^", "_",
       "backtick", "a", "b", "c", "d", "e", "f", "g", "h", "i", "j", "k", "l", "m", "n", "o",
       "p", "q", "r", "s", "t", "u", "v", "w", "x", "y", "z", "{", "|", "}", "~"
    >>

\* ord(c)
Ord(c) == 31 + (CHOOSE i \in DOMAIN AsciiChars : AsciiChars[i] = c)

\* chr(n)
Chr(n) == AsciiChars[n - 31]

IsLowerAlnum(c) == (Ord(c) >= 97 /\ Ord(c) <= 122) \/ (Ord(c) >= 48 /\ Ord(c) <= 57)

\* str.lower() on one character
LowerChar(c) == IF Ord(c) >= 65 /\ Ord(c) <= 90 THEN Chr(Ord(c) + 32) ELSE c

\* str.lower()
Lower(s) == [i \in DOMAIN s |-> LowerChar(s[i])]

\* s.split(sep)[0]: the part of s before the first sep
RECURSIVE SplitFirst(_, _)
SplitFirst(s, sep) ==
    IF s = <<>> \/ Head(s) = sep THEN <<>>
    ELSE <<Head(s)>> \o SplitFirst(Tail(s), sep)

\* s.lstrip(c)
RECURSIVE LStrip(_, _)
LStrip(s, c) == IF s # <<>> /\ Head(s) = c THEN LStrip(Tail(s), c) ELSE s

\* s.rstrip(c)
RECURSIVE RStrip(_, _)
RStrip(s, c) ==
    IF s # <<>> /\ s[Len(s)] = c THEN RStrip(SubSeq(s, 1, Len(s) - 1), c) ELSE s

\* s.strip(c)
Strip(s, c) == RStrip(LStrip(s, c), c)

\* s[:n]
Take(s, n) == IF Len(s) <= n THEN s ELSE SubSeq(s, 1, n)

----------------------------------------------------------------------------
(* hashlib.md5 (RFC 1321).  A 32-bit word is a pair <<high, low>> of 16-bit *)
(* halves, so that no intermediate value exceeds 2^31.                     *)

MD5_K ==
    <<
       <<55146, 42104>>, <<59591, 46934>>, <<9248, 28891>>, <<49597, 52974>>,
       <<62844, 4015>>, <<18311, 50730>>, <<43056, 17939>>, <<64838, 38145>>,
       <<27008, 39128>>, <<35652, 63407>>, <<65535, 23473>>, <<35164, 55230>>,
       <<27536, 4386>>, <<64920, 29075>>, <<42617, 17294>>, <<18868, 2081>>,
       <<63006, 9570>>, <<49216, 45888>>, <<9822, 23121>>, <<59830, 51114>>,
       <<54831, 4189>>, <<580, 5203>>, <<55457, 59009>>, <<59347, 64456>>,
       <<8673, 52710>>, <<49975, 2006>>, <<62677, 3463>>, <<17754, 5357>>,
       <<43491, 59653>>, <<64751, 41976>>, <<26479, 729>>, <<36138, 19594>>,
       <<65530, 14658>>, <<34673, 63105>>, <<28061, 24866>>, <<64997, 14348>>,
       <<42174, 59972>>, <<19422, 53161>>, <<63163, 19296>>, <<48831, 48240>>,
       <<10395, 32454>>, <<60065, 10234>>, <<54511, 12421>>, <<1160, 7429>>,
       <<55764, 53305>>, <<59099, 39397>>, <<8098, 31992>>, <<50348, 22117>>,
       <<62505, 8772>>, <<17194, 65431>>, <<43924, 9127>>, <<64659, 41017>>,
       <<25947, 22979>>, <<36620, 52370>>, <<65519, 62589>>, <<34180, 24017>>,
       <<28584, 32335>>, <<65068, 59104>>, <<41729, 17172>>, <<19976, 4513>>,
       <<63315, 32386>>, <<48442, 62005>>, <<10967, 53947>>, <<60294, 54161>>
    >>

MD5_S ==
    <<
       7, 12, 17, 22, 7, 12, 17, 22, 7, 12, 17, 22, 7, 12, 17, 22,
       5, 9, 14, 20, 5, 9, 14, 20, 5, 9, 14, 20, 5, 9, 14, 20,
       4, 11, 16, 23, 4, 11, 16, 23, 4, 11, 16, 23, 4, 11, 16, 23,
       6, 10, 15, 21, 6, 10, 15, 21, 6, 10, 15, 21, 6, 10, 15, 21
    >>

RECURSIVE Pow2(_)
Pow2(n) == IF n = 0 THEN 1 ELSE 2 * Pow2(n - 1)

\* Bit functions of the four rounds, on single bits x, y, z.
MD5_Bit(r, x, y, z) ==
    CASE r = 0 -> IF x = 1 THEN y ELSE z                  \* F = (x & y) | (~x & z)
      [] r = 1 -> IF z = 1 THEN x ELSE y                  \* G = (x & z) | (y & ~z)
      [] r = 2 -> (x + y + z) % 2                         \* H = x ^ y ^ z
      [] r = 3 -> (y + (IF x = 1 \/ z = 0 THEN 1 ELSE 0)) % 2   \* I = y ^ (x | ~z)

RECURSIVE MD5_Bits(_, _, _, _, _)
MD5_Bits(r, x, y, z, n) ==
    IF n = 0 THEN 0
    ELSE MD5_Bit(r, x % 2, y % 2, z % 2)
         + 2 * MD5_Bits(r, x \div 2, y \div 2, z \div 2, n - 1)

MD5_Fn(r, x, y, z) ==
    <<MD5_Bits(r, x[1], y[1], z[1], 16), MD5_Bits(r, x[2], y[2], z[2], 16)>>

Add32(a, b) ==
    LET lo == a[2] + b[2]
        hi == a[1] + b[1] + (lo \div 65536)
    IN  <<hi % 65536, lo % 65536>>

RotL32(w, s) ==
    LET v == IF s >= 16 THEN <<w[2], w[1]>> ELSE w
        t == IF s >= 16 THEN s - 16 ELSE s
    IN  << ((v[1] * Pow2(t)) % 65536) + (v[2] \div Pow2(16 - t)),
           ((v[2] * Pow2(t)) % 65536) + (v[1] \div Pow2(16 - t)) >>

\* The message followed by 0x80, zeros up to 56 mod 64, and the bit length as
\* eight little-endian bytes (messages here are shorter than 2^13 bytes).
MD5_Pad(bytes) ==
    LET n     == Len(bytes)
        zeros == (119 - n) % 64
        bits  == 8 * n
    IN  bytes \o <<128>> \o [i \in 1..zeros |-> 0]
        \o <<bits % 256, (bits \div 256) % 256, 0, 0, 0, 0, 0, 0>>

\* Word g (0..15) of block b (0-based) of the padded message, little-endian.
MD5_Word(p, b, g) ==
    LET o == 64 * b + 4 * g IN
    << p[o + 3] + 256 * p[o + 4], p[o + 1] + 256 * p[o + 2] >>

MD5_G(i) ==
    CASE i < 16 -> i
      [] i >= 16 /\ i < 32 -> (5 * i + 1) % 16
      [] i >= 32 /\ i < 48 -> (3 * i + 5) % 16
      [] i >= 48 -> (7 * i) % 16

\* Step i (0..63) of the compression of block b, on the registers a, b, c, d.
MD5_Step(p, b, st) ==
    LET f == MD5_Fn(st.i \div 16, st.b, st.c, st.d)
        t == Add32(Add32(f, st.a), Add32(MD5_K[st.i + 1], MD5_Word(p, b, MD5_G(st.i))))
    IN  [i |-> st.i + 1,
         a |-> st.d,
         b |-> Add32(st.b, RotL32(t, MD5_S[st.i + 1])),
         c |-> st.b,
         d |-> st.c]

RECURSIVE MD5_Steps(_, _, _)
MD5_Steps(p, b, st) ==
    IF st.i = 64 THEN st ELSE MD5_Steps(p, b, MD5_Step(p, b, st))

\* The digest registers h = <<A, B, C, D>> after blocks b, b + 1, ... of p.
RECURSIVE MD5_Blocks(_, _, _)
MD5_Blocks(p, b, h) ==
    IF 64 * b >= Len(p) THEN h
    ELSE LET st == MD5_Steps(p, b, [i |-> 0, a |-> h[1], b |-> h[2], c |-> h[3], d |-> h[4]])
         IN  MD5_Blocks(p, b + 1,
                        <<Add32(h[1], st.a), Add32(h[2], st.b), Add32(h[3], st.c), Add32(h[4], st.d)>>)

MD5_Init == << <<26437, 8961>>, <<61389, 43913>>, <<39098, 56574>>, <<4146, 21622>> >>

HexDigits == <<"0", "1", "2", "3", "4", "5", "6", "7", "8", "9", "a", "b", "c", "d", "e", "f">>

HexByte(b) == <<HexDigits[(b \div 16) + 1], HexDigits[(b % 16) + 1]>>

\* s.encode(): the bytes of an ASCII string
RECURSIVE Encode(_)
Encode(s) == IF s = <<>> THEN <<>> ELSE <<Ord(Head(s))>> \o Encode(Tail(s))

\* The eight hex digits of one 32-bit word of the digest, low byte first.
HexWord(w) ==
    HexByte(w[2] % 256) \o HexByte(w[2] \div 256)
    \o HexByte(w[1] % 256) \o HexByte(w[1] \div 256)

\* hashlib.md5(s.encode()).hexdigest()
md5_hexdigest(s) ==
    LET h == MD5_Blocks(MD5_Pad(Encode(s)), 0, MD5_Init)
    IN  HexWord(h[1]) \o HexWord(h[2]) \o HexWord(h[3]) \o HexWord(h[4])

\* hashlib.md5(s.encode()).hexdigest()[:8]: the first four bytes of the digest.
md5_hex8(s) ==
    LET bytes == Encode(s)
        a     == MD5_Blocks(MD5_Pad(bytes), 0, MD5_Init)[1]
    IN  HexByte(a[2] % 256) \o HexByte(a[2] \div 256)
        \o HexByte(a[1] % 256) \o HexByte(a[1] \div 256)

----------------------------------------------------------------------------
(* app/scraper.py *)

get_links_AnyDomain(hrefs, domain) ==
    { StripFragment(l) : l \in { h \in hrefs : h.scheme \in {"http", "https"} } }

\* get_links: the set of internal links of a page (before list(set(...)) orders it).
get_links(hrefs, domain) ==
    { StripFragment(l) : l \in { h \in hrefs : h.netloc = domain /\ h.scheme \in {"http", "https"} } }

\* The anchors of a page that get_links leaves out (foreign netloc or scheme).
Rejected(hrefs, domain) ==
    { h \in hrefs : ~(h.netloc = domain /\ h.scheme \in {"http", "https"}) }

RECURSIVE EnqueueLinks_NoVisitedCheck(_, _, _, _)
EnqueueLinks_NoVisitedCheck(links, depth, v, q) ==
    IF links = <<>> THEN [v |-> v, q |-> q]
    ELSE LET link == Head(links) IN
         EnqueueLinks_NoVisitedCheck(Tail(links), depth, v \cup {link},
                                     Append(q, <<link, depth + 1>>))

\* The loop "for link in links: if link not in visited: visited.add(link);
\* queue.append((link, depth + 1))" over the list links, from state [v, q].
RECURSIVE EnqueueLinks(_, _, _, _)
EnqueueLinks(links, depth, v, q) ==
    IF links = <<>> THEN [v |-> v, q |-> q]
    ELSE LET link == Head(links) IN
         IF link \notin v
         THEN EnqueueLinks(Tail(links), depth, v \cup {link}, Append(q, <<link, depth + 1>>))
         ELSE EnqueueLinks(Tail(links), depth, v, q)

LoopCondition_OffByOne == queue # <<>> /\ Len(results) <= max_pages

\* "while queue and len(results) < max_pages"
LoopCondition == queue # <<>> /\ Len(results) < max_pages

QueuePop_Last(q) == [item |-> q[Len(q)], rest |-> SubSeq(q, 1, Len(q) - 1)]

\* queue.pop(0)
QueuePop(q) == [item |-> Head(q), rest |-> Tail(q)]

MayFollow_Inclusive(depth) == depth <= max_depth

\* "if depth < max_depth"
MayFollow(depth) == depth < max_depth

AfterError_Raise == "raised"

\* "except Exception as e: logger.error(...); continue": the loop goes on.
AfterError == "loop"

\* The links of a page that "if link not in visited" finds in visited.
AlreadyVisited(links, v) == links \cap v

InitCrawl ==
    /\ start_url \in StartUrls
    /\ max_depth \in 0..MaxDepthBound
    /\ max_pages \in 0..MaxPagesBound
    /\ base_domain = start_url.netloc
    /\ queue = << <<start_url, 0>> >>
    /\ visited = {start_url}
    /\ results = <<>>
    /\ requested = <<>>
    /\ dropped = {}
    /\ outcome = "none"
    /\ relinked = FALSE
    /\ crawl_pc = "loop"

\* One iteration in which client.get, raise_for_status or clean_html raises:
\* the except branch logs and continues.
CrawlFetchFail ==
    /\ crawl_pc = "loop"
    /\ LoopCondition
    /\ LET p == QueuePop(queue) IN
        /\ queue' = p.rest
        /\ requested' = Append(requested, p.item)
    /\ outcome' = "fetch_failed"
    /\ relinked' = FALSE
    /\ crawl_pc' = AfterError
    /\ UNCHANGED <<start_url, max_depth, max_pages, base_domain, visited, results, dropped, not_crawl>>

\* One iteration in which the page is fetched and parsed.
CrawlPageOk ==
    /\ crawl_pc = "loop"
    /\ LoopCondition
    /\ \E content \in Contents :
        LET p     == QueuePop(queue)
            url   == p.item[1]
            depth == p.item[2]
            res1  == IF content # <<>> THEN Append(results, [url |-> url, content |-> content])
                     ELSE results
        IN  /\ requested' = Append(requested, p.item)
            /\ outcome' = "ok"
            /\ results' = res1
            /\ IF MayFollow(depth)
               THEN \E hrefs \in SUBSET LinkUniverse :
                    \E links \in Orders(get_links(hrefs, base_domain)) :
                      LET e == EnqueueLinks(links, depth, visited, p.rest) IN
                        /\ visited' = e.v
                        /\ queue' = e.q
                        /\ dropped' = dropped \cup Rejected(hrefs, base_domain)
                        /\ relinked' = (AlreadyVisited(get_links(hrefs, base_domain), visited) # {})
               ELSE /\ visited' = visited
                    /\ queue' = p.rest
                    /\ dropped' = dropped
                    /\ relinked' = FALSE
    /\ UNCHANGED <<start_url, max_depth, max_pages, base_domain, crawl_pc, not_crawl>>

\* One iteration in which the page is fetched but get_links raises (urljoin
\* rejects a malformed href): the record is already appended, no link is queued.
CrawlLinksFail ==
    /\ crawl_pc = "loop"
    /\ LoopCondition
    /\ \E content \in Contents :
        LET p     == QueuePop(queue)
            url   == p.item[1]
            depth == p.item[2]
        IN  /\ MayFollow(depth)
            /\ requested' = Append(requested, p.item)
            /\ results' = IF content # <<>> THEN Append(results, [url |-> url, content |-> content])
                          ELSE results
            /\ queue' = p.rest
    /\ outcome' = "links_failed"
    /\ relinked' = FALSE
    /\ crawl_pc' = AfterError
    /\ UNCHANGED <<start_url, max_depth, max_pages, base_domain, visited, dropped, not_crawl>>

\* The loop condition fails: return results.
CrawlReturn ==
    /\ crawl_pc = "loop"
    /\ ~LoopCondition
    /\ crawl_pc' = "done"
    /\ UNCHANGED <<start_url, max_depth, max_pages, base_domain, queue, visited, results,
                   requested, dropped, outcome, relinked, not_crawl>>

NextCrawl == CrawlFetchFail \/ CrawlPageOk \/ CrawlLinksFail \/ CrawlReturn

----------------------------------------------------------------------------
(* app/vector_store.py *)

MaxIndexNameLen == 45
HashChars == 8
IdHashChars == 12
TopK == 5

\* The characters of the schemes and paths of the URLs of the model.
SchemeChars(scheme) ==
    CASE scheme = "http"  -> <<"h", "t", "t", "p">>
      [] scheme = "https" -> <<"h", "t", "t", "p", "s">>
      [] scheme = "ftp"   -> <<"f", "t", "p">>

PathChars(path) ==
    CASE path = "/"  -> <<"/">>
      [] path = "/p" -> <<"/", "p">>
      [] path = "/q" -> <<"/", "q">>
      [] path = "/f" -> <<"/", "f">>
      [] path = "/p2212648"  -> <<"/", "p", "2", "2", "1", "2", "6", "4", "8">>
      [] path = "/p16621715" -> <<"/", "p", "1", "6", "6", "2", "1", "7", "1", "5">>

\* The URL as the string the code holds (the fragment of these URLs is empty).
UrlString(url) ==
    SchemeChars(url.scheme) \o <<":", "/", "/">> \o url.netloc \o PathChars(url.path)

\* hashlib.md5(url.encode()).hexdigest()[:12], the prefix of a record's _id.
record_id_prefix(url) == Take(md5_hexdigest(UrlString(url)), IdHashChars)

\* re.sub(r'[^a-z0-9]', '-', s)
SubNonAlnum(s) == [i \in DOMAIN s |-> IF IsLowerAlnum(s[i]) THEN s[i] ELSE "-"]

\* get_index_name
get_index_name(url) ==
    LET domain   == SplitFirst(Lower(url.netloc), ":")
        url_hash == Take(md5_hex8(domain), HashChars)
        clean    == Strip(SubNonAlnum(domain), "-")
        name     == <<"i", "d", "x", "-">> \o clean \o <<"-">> \o url_hash
    IN  RStrip(Take(name, MaxIndexNameLen), "-")

\* self.pc.has_index(name)
has_index(ixs, name) == name \in DOMAIN ixs

\* The records built for one page: one per chunk of text_splitter.split_text(content).
\* The _id md5(url)[:12]-i is the pair <<md5(url)[:12], i>> (i from 0); prefix is
\* the table of the prefixes.
PageRecordsWith(page, prefix) ==
    { [id |-> <<prefix[page.url], i - 1>>, chunk_text |-> page.content[i], url |-> page.url]
        : i \in DOMAIN page.content }

\* index.upsert_records("default", records): a record replaces the one with its _id.
upsert_records(ixs, name, records) ==
    LET ids  == { r.id : r \in records }
        kept == { r \in ixs[name].records : r.id \notin ids }
    IN  [ixs EXCEPT ![name].records = kept \cup records]

\* _ensure_index when it succeeds: an inference index is kept, a standard index
\* is deleted and created again, a missing index is created.
ensure_index(ixs, name) ==
    IF has_index(ixs, name) /\ ixs[name].embed THEN ixs
    ELSE [n \in DOMAIN ixs \cup {name} |->
            IF n = name THEN [embed |-> TRUE, records |-> {}] ELSE ixs[n]]

\* The calls of _ensure_index that may raise: has_index (l.43), describe_index
\* (l.44), delete_index (l.52), has_index in the wait for the deletion (l.53),
\* create_index_for_model (l.58) and describe_index in the wait for readiness (l.68).
EnsureFailPoints ==
    {"has_index", "describe_index", "delete_index", "wait_deleted",
     "create_index_for_model", "wait_ready"}

\* Whether _ensure_index makes the call: describe_index for an index that
\* exists, the deletion for a standard index, the creation unless an inference
\* index exists.
ReachesPoint(ixs, name, point) ==
    CASE point = "has_index" -> TRUE
      [] point = "describe_index" -> has_index(ixs, name)
      [] point \in {"delete_index", "wait_deleted"} -> has_index(ixs, name) /\ ~ixs[name].embed
      [] point \in {"create_index_for_model", "wait_ready"} ->
            ~(has_index(ixs, name) /\ ixs[name].embed)

\* The account after _ensure_index raised at point: nothing is changed before
\* delete_index has returned; after it the standard index is gone; after
\* create_index_for_model has returned the new, empty inference index exists.
ensure_index_failed(ixs, name, point) ==
    IF point \in {"has_index", "describe_index", "delete_index"} THEN ixs
    ELSE IF point \in {"wait_deleted", "create_index_for_model"}
         THEN [n \in DOMAIN ixs \ {name} |-> ixs[n]]
         ELSE ensure_index(ixs, name)

Page(u, c) == [url |-> u, content |-> c]

LongLabel == [i \in 1..LongLabelLen |-> "a"]

\* Network locations of the sites indexed and queried.
SiteNetlocs ==
    { <<"a", ".", "c">>,
      <<"A", ".", "c">>,
      <<"a", ".", "c", ":", "8", "0">>,
      <<"a", "-", "c">>,
      LongLabel \o <<".", "x">>,
      LongLabel \o <<".", "y">> }

\* What a crawl can return: pages of one netloc with distinct URLs and non-empty
\* text; and the empty list.
SiteData ==
    {<<>>} \cup
    UNION { { << Page(Url("https", n, "/", ""), <<"t1", "t2">>) >>,
              << Page(Url("https", n, "/", ""), <<"t1">>),
                 Page(Url("https", n, "/p", ""), <<"t3">>) >> } : n \in SiteNetlocs }
    \cup { << Page(Url("https", <<"a", ".", "c">>, "/p2212648", ""), <<"t1">>),
              Page(Url("https", <<"a", ".", "c">>, "/p16621715", ""), <<"t3">>) >> }

PageUrls == UNION { { data[i].url : i \in DOMAIN data } : data \in SiteData }

QueryUrls == { Url("http", n, p, "") : n \in SiteNetlocs, p \in {"/", "/q"} }

SiteUrls == QueryUrls \cup PageUrls

\* get_index_name on every URL the vector store is called with, evaluated once.
IndexNameOf == [u \in SiteUrls |-> get_index_name(u)]

\* record_id_prefix on every page URL, evaluated once.
RecordIdPrefixOf == [u \in PageUrls |-> record_id_prefix(u)]

PageRecords(page) == PageRecordsWith(page, RecordIdPrefixOf)

\* The loop over the pages 1..n of website_data, upserting each non-empty page.
RECURSIVE UpsertPages(_, _, _, _)
UpsertPages(ixs, name, data, n) ==
    IF n = 0 THEN ixs
    ELSE LET before == UpsertPages(ixs, name, data, n - 1)
             page   == data[n]
         IN  IF page.content = <<>> THEN before
             ELSE upsert_records(before, name, PageRecords(page))

NoIxOp == [status |-> "none", data |-> <<>>, name |-> <<>>, wrote |-> {}, seq |-> 0]
NoQOp  == [status |-> "none", url |-> <<>>, name |-> <<>>, hits |-> <<>>, seq |-> 0]

StaleRecord == [id |-> << <<"o", "l", "d">>, 0 >>, chunk_text |-> "old", url |-> "old"]

InitVectorStore ==
    /\ pc_client \in BOOLEAN
    /\ indexes \in { <<>>,
                     [n \in {IndexNameOf[Url("http", <<"a", ".", "c">>, "/", "")]} |->
                         [embed |-> FALSE, records |-> {StaleRecord}]] }
    /\ ix_op = NoIxOp
    /\ q_op = NoQOp
    /\ vs_calls = 0

\* index_website_content returns at once: no client, or nothing to index.
IndexNothing ==
    /\ vs_calls < MaxVsCalls
    /\ \E data \in SiteData :
        /\ ~pc_client \/ data = <<>>
        /\ ix_op' = [status |-> "skipped", data |-> data, name |-> <<>>, wrote |-> {},
                   seq |-> vs_calls + 1]
    /\ vs_calls' = vs_calls + 1
    /\ UNCHANGED <<pc_client, indexes, q_op, not_vs>>

\* index_website_content: _ensure_index raises at one of its calls.
IndexEnsureFails ==
    /\ vs_calls < MaxVsCalls
    /\ pc_client
    /\ \E data \in SiteData \ {<<>>}, point \in EnsureFailPoints :
        LET index_name == IndexNameOf[data[1].url] IN
        /\ ReachesPoint(indexes, index_name, point)
        /\ indexes' = ensure_index_failed(indexes, index_name, point)
        /\ ix_op' = [status |-> "raised", data |-> data, name |-> index_name, wrote |-> {},
                   seq |-> vs_calls + 1]
    /\ vs_calls' = vs_calls + 1
    /\ UNCHANGED <<pc_client, q_op, not_vs>>

\* index_website_content: upsert_records raises on page k, after pages 1..k-1
\* (k = 1 is also self.pc.Index raising, l.96).
IndexUpsertFails ==
    /\ vs_calls < MaxVsCalls
    /\ pc_client
    /\ \E data \in SiteData \ {<<>>} : \E k \in DOMAIN data :
        LET index_name == IndexNameOf[data[1].url] IN
        /\ indexes' = UpsertPages(ensure_index(indexes, index_name), index_name, data, k - 1)
        /\ ix_op' = [status |-> "raised", data |-> data, name |-> index_name,
                     wrote |-> IF k > 1 THEN {index_name} ELSE {}, seq |-> vs_calls + 1]
    /\ vs_calls' = vs_calls + 1
    /\ UNCHANGED <<pc_client, q_op, not_vs>>

\* index_website_content runs to the end.
IndexWebsiteContent ==
    /\ vs_calls < MaxVsCalls
    /\ pc_client
    /\ \E data \in SiteData \ {<<>>} :
        LET index_name == IndexNameOf[data[1].url] IN
        /\ indexes' = UpsertPages(ensure_index(indexes, index_name), index_name, data, Len(data))
        /\ ix_op' = [status |-> "ok", data |-> data, name |-> index_name, wrote |-> {index_name},
                     seq |-> vs_calls + 1]
    /\ vs_calls' = vs_calls + 1
    /\ UNCHANGED <<pc_client, q_op, not_vs>>

\* The hit lists index.search may return: at most top_k records of the index
\* (the search by text needs an index with an embedding model; it raises otherwise).
SearchResults(records) ==
    UNION { Orders(S) : S \in { T \in SUBSET records : Cardinality(T) <= TopK } }

\* query_context: the context is the list of "Source [url]:\ntext" parts, kept
\* here as the list of the hits' fields; <<>> is the empty string.  Status
\* "raised" is index.search raising inside the try (l.135-155): "" is returned.
\* Status "exception" is has_index (l.129) or self.pc.Index (l.133) raising
\* outside the try: query_context returns nothing, the exception goes to the caller.
QueryContext ==
    /\ vs_calls < MaxVsCalls
    /\ \E url \in QueryUrls :
        IF ~pc_client
        THEN q_op' = [status |-> "no_client", url |-> url, name |-> <<>>, hits |-> <<>>,
                      seq |-> vs_calls + 1]
        ELSE LET index_name == IndexNameOf[url] IN
             \/ q_op' = [status |-> "exception", url |-> url, name |-> index_name,
                         hits |-> <<>>, seq |-> vs_calls + 1]
             \/ /\ ~has_index(indexes, index_name)
                /\ q_op' = [status |-> "no_index", url |-> url, name |-> index_name,
                            hits |-> <<>>, seq |-> vs_calls + 1]
             \/ /\ has_index(indexes, index_name)
                /\ indexes[index_name].embed
                /\ \E hits \in SearchResults(indexes[index_name].records) :
                      q_op' = [status |-> "ok", url |-> url, name |-> index_name,
                               hits |-> [i \in DOMAIN hits |->
                                           [source_url |-> hits[i].url, text |-> hits[i].chunk_text]],
                               seq |-> vs_calls + 1]
             \/ /\ has_index(indexes, index_name)
                /\ q_op' = [status |-> "raised", url |-> url, name |-> index_name, hits |-> <<>>,
                            seq |-> vs_calls + 1]
    /\ vs_calls' = vs_calls + 1
    /\ UNCHANGED <<pc_client, indexes, ix_op, not_vs>>

NextVectorStore ==
    IndexNothing \/ IndexEnsureFails \/ IndexUpsertFails \/ IndexWebsiteContent \/ QueryContext

----------------------------------------------------------------------------
(* app/ai.py: chat_interaction, on the LangGraph MessagesState graph *)

Threads  == {"t1", "t2"}
Replies  == {"r1", "r2"}

\* A message id not yet assigned (id=None).
NoId == <<>>

Msg(t, c, i) == [type |-> t, content |-> c, id |-> i]

\* The history argument: None, or a list of ChatMessage.
NoHistory == [given |-> FALSE, msgs |-> <<>>]
Histories ==
    { NoHistory,
      [given |-> TRUE, msgs |-> << [role |-> "user", content |-> "h1"],
                                   [role |-> "assistant", content |-> "h2"] >>] }

\* The requests made on a thread: the query, what query_context returns for it
\* ("" when nothing is found) and the history argument.
Asks ==
    { [query |-> "q1", context |-> "", history |-> NoHistory],
      [query |-> "q2", context |-> "ctx1", history |-> NoHistory] }
    \cup { [query |-> "q1", context |-> "", history |-> h] : h \in Histories \ {NoHistory} }

\* The system prompt built around the retrieved context: the fixed rules are
\* left out, the context (or the fallback sentence) is what varies.
SystemPrompt(context) ==
    IF context = "" THEN "No specific website content found for this query." ELSE context

IsSystemMessage(m) == m.type = "system"
NotSystemMessage(m) == ~IsSystemMessage(m)

ThreadConfig_Shared(thread_id) == "t1"

\* config = {"configurable": {"thread_id": thread_id}}: the key of the checkpoint.
ThreadConfig(thread_id) == thread_id

\* A fresh id (a uuid4 in the code): the key of the checkpoint it is made for
\* and a running number.
FreshId(key, n) == <<key, n>>
NextId(nid) == FreshId(nid[1], nid[2] + 1)

\* add_messages gives every message without an id a fresh one.
RECURSIVE AssignIds(_, _)
AssignIds(msgs, nid) ==
    IF msgs = <<>> THEN [msgs |-> <<>>, next |-> nid]
    ELSE LET m == Head(msgs) IN
         IF m.id = NoId
         THEN LET r == AssignIds(Tail(msgs), NextId(nid)) IN
              [msgs |-> <<[m EXCEPT !.id = nid]>> \o r.msgs, next |-> r.next]
         ELSE LET r == AssignIds(Tail(msgs), nid) IN
              [msgs |-> <<m>> \o r.msgs, next |-> r.next]

\* add_messages: a message whose id is already in the list replaces that
\* message in place, any other message is appended.
RECURSIVE MergeById(_, _)
MergeById(merged, right) ==
    IF right = <<>> THEN merged
    ELSE LET m == Head(right) IN
         IF \E i \in DOMAIN merged : merged[i].id = m.id
         THEN LET i == CHOOSE k \in DOMAIN merged : merged[k].id = m.id IN
              MergeById([merged EXCEPT ![i] = m], Tail(right))
         ELSE MergeById(Append(merged, m), Tail(right))

\* The reducer of MessagesState.messages.
add_messages(left, right, nid) ==
    LET a == AssignIds(right, nid) IN
    [msgs |-> MergeById(left, a.msgs), next |-> a.next]

\* The history argument as messages: role "user" is a HumanMessage, any other
\* role an AIMessage.
HistoryMessages(history) ==
    [i \in DOMAIN history.msgs |->
        IF history.msgs[i].role = "user"
        THEN Msg("human", history.msgs[i].content, NoId)
        ELSE Msg("ai", history.msgs[i].content, NoId)]

\* What goes between the system message and the query: the stored messages
\* that are no system messages, or else the history argument.
PriorMessages(state, history) ==
    IF state # <<>> THEN SelectSeq(state, NotSystemMessage)
    ELSE IF history.given /\ history.msgs # <<>> THEN HistoryMessages(history)
    ELSE <<>>

\* The list chat_interaction passes to graph.ainvoke.
BuildMessages(state, history, system_prompt, query) ==
    <<Msg("system", system_prompt, NoId)>>
    \o PriorMessages(state, history)
    \o <<Msg("human", query, NoId)>>

InitChat ==
    /\ checkpoints = [t \in Threads |-> <<>>]
    /\ next_id = [t \in Threads |-> 1]
    /\ chat_log = [t \in Threads |-> <<>>]
    /\ chat_turns = 0
    /\ calls = EmptyBag
    /\ irregular = {}

\* A call is in flight from its start to its return or its exception, and
\* calls holds the calls in flight.  The coroutine gives way to other calls at
\* its awaits: entering "async with" (l.142), graph.aget_state (l.146),
\* graph.ainvoke (l.173) and leaving "async with" (after l.173).
InFlight == BagToSet(calls)

\* The calls in flight when call c has left, and when it has gone on as d.
Left(c) == calls (-) SetToBag({c})
Moved(c, d) == Left(c) (+) SetToBag({d})

\* A call with its arguments and local variables; a variable that is not yet
\* set, or no longer read, is empty.
Call(thread_id, query, history, prompt, state, messages, input, reply, pc) ==
    [thread |-> thread_id, query |-> query, history |-> history, prompt |-> prompt,
     state |-> state, messages |-> messages, input |-> input, reply |-> reply, pc |-> pc]

\* chat_interaction starts and query_context raises (l.116, outside any try):
\* the call ends with the exception before it has touched the checkpoint.
ChatRetrievalFails ==
    /\ chat_turns < MaxChatTurns
    /\ chat_turns' = chat_turns + 1
    /\ UNCHANGED <<checkpoints, next_id, chat_log, calls, irregular, not_chat>>

\* chat_interaction from its start to l.142: the context is retrieved, the
\* system prompt is built and the call waits to enter "async with".
ChatStart ==
    /\ chat_turns < MaxChatTurns
    /\ \E thread_id \in Threads, ask \in Asks :
        /\ calls' = calls (+) SetToBag({Call(thread_id, ask.query, ask.history,
                                             SystemPrompt(ask.context), <<>>, <<>>, <<>>, "",
                                             "started")})
        /\ irregular' = IF \E c \in InFlight : c.thread = thread_id
                        THEN irregular \cup {thread_id} ELSE irregular
    /\ chat_turns' = chat_turns + 1
    /\ UNCHANGED <<checkpoints, next_id, chat_log, not_chat>>

\* l.146-170: graph.aget_state reads the thread's checkpoint and the list for
\* graph.ainvoke is built from what was read.
ChatReadState ==
    /\ \E c \in InFlight :
        /\ c.pc = "started"
        /\ LET state    == checkpoints[ThreadConfig(c.thread)]
               messages == BuildMessages(state, c.history, c.prompt, c.query)
           IN  calls' = Moved(c, [c EXCEPT !.state = state, !.messages = messages,
                                          !.pc = "read"])
    /\ UNCHANGED <<checkpoints, next_id, chat_log, chat_turns, irregular, not_chat>>

\* graph.ainvoke, first part: the thread's checkpoint is loaded, the input is
\* reduced into it by add_messages and the result is saved; call_model will be
\* invoked with the reduced list.
ChatInvokeBegin ==
    /\ \E c \in InFlight :
        /\ c.pc = "read"
        /\ LET key     == ThreadConfig(c.thread)
               reduced == add_messages(checkpoints[key], c.messages,
                                       FreshId(key, next_id[key]))
           IN  /\ checkpoints' = [checkpoints EXCEPT ![key] = reduced.msgs]
               /\ next_id' = [next_id EXCEPT ![key] = reduced.next[2]]
               /\ calls' = Moved(c, [c EXCEPT !.messages = <<>>, !.input = reduced.msgs,
                                              !.pc = "invoked"])
    /\ UNCHANGED <<chat_log, chat_turns, irregular, not_chat>>

\* graph.ainvoke, second part: self.llm.invoke returns, the reply is reduced
\* into the list the call holds and the result is saved as the thread's
\* checkpoint; the call waits to leave "async with".
ChatInvokeEnd ==
    /\ \E c \in InFlight, reply \in Replies :
        /\ c.pc = "invoked"
        /\ LET key      == ThreadConfig(c.thread)
               response == Msg("ai", reply, FreshId(key, next_id[key]))
               final    == add_messages(c.input, <<response>>, FreshId(key, next_id[key] + 1))
           IN  /\ checkpoints' = [checkpoints EXCEPT ![key] = final.msgs]
               /\ next_id' = [next_id EXCEPT ![key] = final.next[2]]
               /\ calls' = Moved(c, Call(c.thread, c.query, c.history, "", <<>>, <<>>, <<>>,
                                          reply, "stored"))
    /\ UNCHANGED <<chat_log, chat_turns, irregular, not_chat>>

\* l.176-181: chat_interaction returns the reply.
ChatReturn ==
    /\ \E c \in InFlight :
        /\ c.pc = "stored"
        /\ calls' = Left(c)
        /\ chat_log' = [chat_log EXCEPT ![c.thread] =
                          Append(@, [query |-> c.query, reply |-> c.reply,
                                     history |-> c.history])]
    /\ UNCHANGED <<checkpoints, next_id, chat_turns, irregular, not_chat>>

\* Entering "async with", workflow.compile, graph.aget_state or the load of the
\* checkpoint in graph.ainvoke raises: nothing has been saved for the call.
ChatStateFails ==
    /\ \E c \in InFlight :
        /\ c.pc \in {"started", "read"}
        /\ calls' = Moved(c, Call(c.thread, "", NoHistory, "", <<>>, <<>>, <<>>, "", "raising"))
    /\ UNCHANGED <<checkpoints, next_id, chat_log, chat_turns, irregular, not_chat>>

\* graph.ainvoke, second part: self.llm.invoke raises; the checkpoint saved in
\* the first part stays.
ChatModelFails ==
    /\ \E c \in InFlight :
        /\ c.pc = "invoked"
        /\ calls' = Moved(c, Call(c.thread, "", NoHistory, "", <<>>, <<>>, <<>>, "", "raising"))
        /\ irregular' = irregular \cup {c.thread}
    /\ UNCHANGED <<checkpoints, next_id, chat_log, chat_turns, not_chat>>

\* Leaving "async with" raises (after l.173) when the reply is already saved:
\* the call will end with the exception and return no reply.
ChatExitFails ==
    /\ \E c \in InFlight :
        /\ c.pc = "stored"
        /\ calls' = Moved(c, Call(c.thread, "", NoHistory, "", <<>>, <<>>, <<>>, "", "raising"))
        /\ irregular' = irregular \cup {c.thread}
    /\ UNCHANGED <<checkpoints, next_id, chat_log, chat_turns, not_chat>>

\* The exception leaves chat_interaction.
ChatRaise ==
    /\ \E c \in InFlight :
        /\ c.pc = "raising"
        /\ calls' = Left(c)
    /\ UNCHANGED <<checkpoints, next_id, chat_log, chat_turns, irregular, not_chat>>

NextChat ==
    \/ ChatRetrievalFails \/ ChatStart \/ ChatReadState \/ ChatInvokeBegin
    \/ ChatInvokeEnd \/ ChatReturn \/ ChatExitFails \/ ChatStateFails \/ ChatModelFails
    \/ ChatRaise

----------------------------------------------------------------------------
(* app/main.py *)

\* The names app/scraper.py defines.
ScraperDefs == {"get_links", "clean_html", "scrape_website"}

\* "from .scraper import scrape_homepage"
MainImportsFromScraper == {"scrape_homepage"}

\* Importing app.main succeeds only if every imported name exists; otherwise the
\* import raises ImportError and no application object is created.
AppLoaded == MainImportsFromScraper \subseteq ScraperDefs

\* The parameters of AIService.chat_interaction(self, url, query, thread_id, history=None)
ChatInteractionRequired == {"url", "query", "thread_id"}
ChatInteractionOptional == {"history"}

\* The keywords chat_with_website passes to ai_service.chat_interaction.
ChatCallKeywords == {"content", "query", "thread_id", "history"}

\* Python binds a call by keywords only if each keyword names a parameter and
\* no required parameter is left out; otherwise the call raises TypeError.
CallBinds(keywords, required, optional) ==
    /\ keywords \subseteq required \cup optional
    /\ required \subseteq keywords

API_SECRET_KEY == "default_secret"

NoAuth == [scheme |-> "", credentials |-> ""]
AuthHeaders ==
    { NoAuth,
      [scheme |-> "bearer", credentials |-> API_SECRET_KEY],
      [scheme |-> "bearer", credentials |-> "wrong"],
      [scheme |-> "basic",  credentials |-> API_SECRET_KEY] }

\* HTTPBearer(): the request carries bearer credentials.
HasBearer(auth) == auth.scheme = "bearer"

\* verify_token: credentials.credentials != API_SECRET_KEY raises 401.
verify_token(auth) == auth.credentials = API_SECRET_KEY

ChatPayloads ==
    { [url |-> "https://a.c/", query |-> "q1", thread_id |-> "default_thread", history |-> NoHistory],
      [url |-> "https://a.c/", query |-> "q2", thread_id |-> "t1",
       history |-> [given |-> TRUE, msgs |-> << [role |-> "user", content |-> "h1"] >>]] }

AnalyzePayloads == { [url |-> "https://a.c/", questions |-> <<>>] }

NoChatCall == [made |-> FALSE, keywords |-> {}]

\* An entry of the log: status 0 stands for "no HTTP response" (no application
\* is serving), effects are the services the request reached.
Outcome(endpoint, auth, payload, status, effects, call, body) ==
    [endpoint |-> endpoint, auth |-> auth, payload |-> payload, status |-> status,
     effects |-> effects, call |-> call, body |-> body]

NoBody == [url |-> "", user_query |-> "", agent_response |-> ""]

InitApi == api_log = <<>>

\* POST /analyze
PostAnalyze ==
    /\ Len(api_log) < MaxRequests
    /\ \E auth \in AuthHeaders, payload \in AnalyzePayloads :
        \E e \in
          IF ~AppLoaded
          THEN { Outcome("analyze", auth, payload, 0, {}, NoChatCall, NoBody) }
          ELSE IF ~HasBearer(auth)
          THEN { Outcome("analyze", auth, payload, st, {}, NoChatCall, NoBody) : st \in {401, 403} }
          ELSE IF ~verify_token(auth)
          THEN { Outcome("analyze", auth, payload, 401, {}, NoChatCall, NoBody) }
          ELSE { Outcome("analyze", auth, payload, 429, {}, NoChatCall, NoBody),
                 Outcome("analyze", auth, payload, 500, {"crawl"}, NoChatCall, NoBody),
                 Outcome("analyze", auth, payload, 400, {"crawl", "index", "llm"}, NoChatCall, NoBody),
                 Outcome("analyze", auth, payload, 200, {"crawl", "index", "llm"}, NoChatCall, NoBody) } :
          api_log' = Append(api_log, e)
    /\ UNCHANGED not_api

\* POST /chat
PostChat ==
    /\ Len(api_log) < MaxRequests
    /\ \E auth \in AuthHeaders, payload \in ChatPayloads, reply \in Replies :
        \E e \in
          IF ~AppLoaded
          THEN { Outcome("chat", auth, payload, 0, {}, NoChatCall, NoBody) }
          ELSE IF ~HasBearer(auth)
          THEN { Outcome("chat", auth, payload, st, {}, NoChatCall, NoBody) : st \in {401, 403} }
          ELSE IF ~verify_token(auth)
          THEN { Outcome("chat", auth, payload, 401, {}, NoChatCall, NoBody) }
          ELSE IF ~CallBinds(ChatCallKeywords, ChatInteractionRequired, ChatInteractionOptional)
          THEN { Outcome("chat", auth, payload, 429, {}, NoChatCall, NoBody),
                 Outcome("chat", auth, payload, 500, {"crawl"}, NoChatCall, NoBody) }
          ELSE { Outcome("chat", auth, payload, 429, {}, NoChatCall, NoBody),
                 Outcome("chat", auth, payload, 500, {"crawl"}, NoChatCall, NoBody),
                 Outcome("chat", auth, payload, 200, {"crawl", "llm", "checkpoint"},
                         [made |-> TRUE, keywords |-> ChatCallKeywords],
                         [url |-> payload.url, user_query |-> payload.query,
                          agent_response |-> reply]) } :
          api_log' = Append(api_log, e)
    /\ UNCHANGED not_api

NextApi == PostAnalyze \/ PostChat

----------------------------------------------------------------------------
(* Specifications: each part of the program runs with the others at rest. *)

IdleCrawl ==
    /\ start_url = Url("http", NetA, "/", "")
    /\ max_depth = 0
    /\ max_pages = 0
    /\ base_domain = NetA
    /\ queue = <<>>
    /\ visited = {}
    /\ results = <<>>
    /\ requested = <<>>
    /\ dropped = {}
    /\ outcome = "none"
    /\ relinked = FALSE
    /\ crawl_pc = "done"

IdleVectorStore ==
    /\ pc_client = FALSE
    /\ indexes = <<>>
    /\ ix_op = NoIxOp
    /\ q_op = NoQOp
    /\ vs_calls = 0

IdleChat ==
    /\ checkpoints = [t \in Threads |-> <<>>]
    /\ next_id = [t \in Threads |-> 1]
    /\ chat_log = [t \in Threads |-> <<>>]
    /\ chat_turns = MaxChatTurns
    /\ calls = EmptyBag
    /\ irregular = {}

IdleApi == api_log = <<>>

Init == InitCrawl /\ IdleVectorStore /\ IdleChat /\ IdleApi
Next == NextCrawl
Spec == Init /\ [][Next]_vars

InitVS == InitVectorStore /\ IdleCrawl /\ IdleChat /\ IdleApi
SpecVectorStore == InitVS /\ [][NextVectorStore]_vars

InitCh == InitChat /\ IdleCrawl /\ IdleVectorStore /\ IdleApi
SpecChat == InitCh /\ [][NextChat]_vars

InitRest == InitApi /\ IdleCrawl /\ IdleVectorStore /\ IdleChat
SpecApi == InitRest /\ [][NextApi]_vars

----------------------------------------------------------------------------
(* Claims about scrape_website *)

Range(s) == { s[i] : i \in DOMAIN s }

\* C2: scrape_website returns at most max_pages records; in every state of the
\* crawl loop len(results) <= max_pages.
C2_AtMostMaxPages == Len(results) <= max_pages

\* The page limit, not an empty queue, ended a crawl that collected two pages or more.
C2_Witness ==
    /\ crawl_pc = "done"
    /\ max_pages >= 2
    /\ Len(results) = max_pages
    /\ queue # <<>>

\* C3: no page is requested at a depth above max_depth: every (url, depth) pair
\* that is in the queue or was requested has 0 <= depth <= max_depth.
C3_DepthBounded ==
    /\ \A i \in DOMAIN queue : 0 <= queue[i][2] /\ queue[i][2] <= max_depth
    /\ \A i \in DOMAIN requested : 0 <= requested[i][2] /\ requested[i][2] <= max_depth

\* A page at the depth limit was requested after the crawl went down two levels.
C3_Witness ==
    /\ max_depth = 2
    /\ \E i \in DOMAIN requested : requested[i][2] = max_depth
    /\ \E i \in DOMAIN requested : requested[i][2] = 1

InternalHttp(u) == u.netloc = start_url.netloc /\ u.scheme \in {"http", "https"}

\* C4: every URL requested, queued, marked visited or returned, other than the
\* start URL, has the start URL's netloc and an http or https scheme.
C4_SameDomainOnly ==
    /\ \A i \in DOMAIN requested : requested[i][1] # start_url => InternalHttp(requested[i][1])
    /\ \A i \in DOMAIN queue : queue[i][1] # start_url => InternalHttp(queue[i][1])
    /\ \A i \in DOMAIN results : results[i].url # start_url => InternalHttp(results[i].url)
    /\ \A u \in visited : u # start_url => InternalHttp(u)

\* A page carried a link to another netloc and a link with another scheme, and a
\* page other than the start URL was returned.
C4_Witness ==
    /\ \E h \in dropped : h.netloc # start_url.netloc
    /\ \E h \in dropped : h.scheme = "ftp"
    /\ \E i \in DOMAIN results : results[i].url # start_url

\* C10: pages are requested in breadth-first order: the depths of successive
\* requests never decrease, and no page still waiting in the queue is shallower
\* than the page requested last.
C10_BreadthFirst ==
    /\ \A i, j \in DOMAIN requested : i < j => requested[i][2] <= requested[j][2]
    /\ \A i, j \in DOMAIN queue : i < j => queue[i][2] <= queue[j][2]
    /\ requested # <<>> =>
         \A i \in DOMAIN queue : requested[Len(requested)][2] <= queue[i][2]

\* Two pages of depth 1 and then a page of depth 2 were requested.
C10_Witness ==
    /\ Len(requested) >= 4
    /\ requested[2][2] = 1
    /\ requested[3][2] = 1
    /\ requested[4][2] = 2

UrlsOf(pairs) == [i \in DOMAIN pairs |-> pairs[i][1]]

PairwiseDistinct(s) == \A i, j \in DOMAIN s : i # j => s[i] # s[j]

\* C12: during one crawl no URL is requested twice and none is enqueued twice.
\* The URLs requested so far and the URLs waiting in the queue are pairwise
\* distinct, they are exactly the URLs in visited, and the URLs of the records
\* in results are pairwise distinct.  (URLs are compared as the code compares
\* them, as strings: here, as parsed records.)
C12_NoUrlTwice ==
    /\ PairwiseDistinct(UrlsOf(requested) \o UrlsOf(queue))
    /\ visited = Range(UrlsOf(requested)) \cup Range(UrlsOf(queue))
    /\ PairwiseDistinct([i \in DOMAIN results |-> results[i].url])

\* A site of two pages was crawled to the end: the page at depth 1 was followed
\* and carried a link already in visited, which is a link to itself or a link
\* back to the start page, and both pages were recorded.
C12_Witness ==
    /\ relinked
    /\ Len(requested) = 2
    /\ requested[2][2] = 1
    /\ Cardinality(visited) = 2
    /\ queue = <<>>
    /\ Len(results) = 2

\* An iteration of the loop that ended in the except branch.
PageFailedStep == requested' # requested /\ outcome' # "ok"

KeepsGoing == visited' = visited /\ queue' = Tail(queue) /\ crawl_pc' = "loop"

\* C13 as stated: a page whose fetching or parsing fails adds no record and no
\* link, the records collected so far stay as they are, and the loop goes on
\* with the next queued URL without scrape_website raising.
C13_FailedPageLeavesNothing ==
    [][PageFailedStep => (results' = results /\ KeepsGoing)]_vars

\* C13 amended: a failure of client.get, raise_for_status or clean_html adds no
\* record and no link; a failure of get_links adds no link either, but comes
\* after the page's record was appended, so results is unchanged or grows by
\* the record of that page; in both cases the earlier records stay as they
\* are and the loop goes on with the next queued URL without raising.
C13_FailureKeepsCrawlGoing ==
    [][PageFailedStep =>
         /\ KeepsGoing
         /\ outcome' = "fetch_failed" => results' = results
         /\ outcome' = "links_failed" =>
               \/ results' = results
               \/ \E c \in Contents \ {<<>>} :
                     results' = Append(results, [url |-> Head(queue)[1], content |-> c])]_vars

\* A fetch failed in the middle of a crawl: a record collected earlier is still
\* there, the failed page has none, and the loop has a next URL to go on with.
C13_Witness ==
    /\ outcome = "fetch_failed"
    /\ Len(requested) >= 2
    /\ Len(results) >= 1
    /\ \A i \in DOMAIN results : results[i].url # requested[Len(requested)][1]
    /\ crawl_pc = "loop"
    /\ LoopCondition

----------------------------------------------------------------------------
(* Claims about the vector store *)

\* The host of a network location: lower-cased, without the port.
Hostname(netloc) == Lower(SplitFirst(netloc, ":"))

IndexedNetloc == ix_op.data[1].url.netloc

\* C7: indexing and retrieval agree on one index per site.  After a completed
\* index_website_content every chunk of every page is a record of the index
\* named after the first page's URL, and no other index was written; a later
\* query_context for any URL of the same host (whatever its path, port or
\* letter case) looks up the index of that same name, and its context holds
\* only fields of records stored in that index.
C7_OneIndexPerSite ==
    /\ ix_op.status = "ok" =>
         /\ ix_op.name = IndexNameOf[ix_op.data[1].url]
         /\ ix_op.wrote = {ix_op.name}
         /\ has_index(indexes, ix_op.name)
         /\ \A i \in DOMAIN ix_op.data :
              PageRecords(ix_op.data[i]) \subseteq indexes[ix_op.name].records
    /\ (ix_op.status = "ok" /\ q_op.status \in {"ok", "raised", "no_index"}
        /\ q_op.seq > ix_op.seq
        /\ Hostname(q_op.url.netloc) = Hostname(IndexedNetloc)) =>
         /\ q_op.name = ix_op.name
         /\ q_op.status # "no_index"
    /\ q_op.status = "ok" =>
         \A i \in DOMAIN q_op.hits :
            \E r \in indexes[q_op.name].records :
               r.url = q_op.hits[i].source_url /\ r.chunk_text = q_op.hits[i].text

IsAlnumChar(c) == IsLowerAlnum(c)

ValidIndexName(name) ==
    /\ Len(name) >= 1
    /\ Len(name) <= MaxIndexNameLen
    /\ \A i \in DOMAIN name : IsAlnumChar(name[i]) \/ name[i] = "-"
    /\ IsAlnumChar(name[1])
    /\ IsAlnumChar(name[Len(name)])

\* C8: get_index_name derives a unique, valid index name per site: the names of
\* two URLs whose hosts (lower-cased, port removed) differ are different, and
\* every name is at most 45 characters of [a-z0-9-] with an alphanumeric first
\* and last character.  Stated on the URL indexed last and the URL queried last.
C8_UniqueValidName ==
    /\ ix_op.name # <<>> => ValidIndexName(ix_op.name)
    /\ q_op.name # <<>> => ValidIndexName(q_op.name)
    /\ (ix_op.name # <<>> /\ q_op.name # <<>>
        /\ Hostname(q_op.url.netloc) # Hostname(IndexedNetloc)) => q_op.name # ix_op.name

\* The part of C8 that the code keeps: every name is a valid index name.
C8_ValidName ==
    /\ ix_op.name # <<>> => ValidIndexName(ix_op.name)
    /\ q_op.name # <<>> => ValidIndexName(q_op.name)

----------------------------------------------------------------------------
(* Claims about chat_interaction *)

NonSystem(msgs) == SelectSeq(msgs, NotSystemMessage)

WithoutHistory(t) == \A i \in DOMAIN chat_log[t] : chat_log[t][i].history = NoHistory

\* Every call made on t so far that saved anything has returned its reply (none
\* is in flight, none raised after graph.ainvoke had saved its input), no two
\* calls on t overlapped, and none carried a history.
CompletedInTurn(t) ==
    /\ t \notin irregular
    /\ \A c \in InFlight : c.thread # t
    /\ WithoutHistory(t)

\* The human/AI messages stored for thread t are the (query, reply) pairs of the
\* calls made on t, in call order.
StoredPairs(t) ==
    LET ns == NonSystem(checkpoints[t]) IN
    /\ Len(ns) = 2 * Len(chat_log[t])
    /\ \A i \in DOMAIN chat_log[t] :
         /\ ns[2 * i - 1].type = "human" /\ ns[2 * i - 1].content = chat_log[t][i].query
         /\ ns[2 * i].type = "ai" /\ ns[2 * i].content = chat_log[t][i].reply

\* The calls whose model invocation is under way: input is the list call_model
\* receives.
Invoked == { c \in InFlight : c.pc = "invoked" }

\* No message the model is invoked with is a message of another thread.
OwnMessagesOnly ==
    \A c \in Invoked : \A t \in Threads \ {c.thread} :
        \A i \in DOMAIN c.input : \A j \in DOMAIN checkpoints[t] :
           c.input[i].id # checkpoints[t][j].id

\* The stored messages of a thread change only in a step of a call on that
\* thread.
OtherThreadsUnchanged ==
    \A t \in Threads :
        checkpoints'[t] # checkpoints[t] =>
          \E c \in InFlight : c.thread = t /\ CopiesIn(c, calls') < CopiesIn(c, calls)

\* C5: conversation state is persisted per thread.  Whenever the calls made on
\* a thread are completed (each has returned its reply; a call that raised
\* after graph.ainvoke had saved its input, in the model call or on leaving
\* "async with", is not completed), none of them overlapped another call on the
\* thread and none carried conversation_history, the human/AI messages stored
\* for the thread are exactly the (query, reply) pairs of those calls, in
\* order; a call changes the stored state of no other thread and sends no other
\* thread's message to the model, whatever overlaps or fails.
C5_PerThreadState ==
    /\ [](\A t \in Threads : CompletedInTurn(t) => StoredPairs(t))
    /\ []OwnMessagesOnly
    /\ [][OtherThreadsUnchanged]_vars

\* Two calls without history were made one after the other on one thread, with
\* different queries and replies.
C5_Witness ==
    /\ Len(chat_log["t1"]) = 2
    /\ CompletedInTurn("t1")
    /\ chat_log["t1"][1].query # chat_log["t1"][2].query
    /\ chat_log["t1"][1].reply # chat_log["t1"][2].reply

SystemCount(msgs) == Cardinality({ i \in DOMAIN msgs : IsSystemMessage(msgs[i]) })

\* C9: in every chat turn the message list the model is invoked with holds
\* exactly one system message, which is the first message and carries the
\* context retrieved for the current query.
C9_OneSystemMessageFirst ==
    \A c \in Invoked :
      /\ SystemCount(c.input) = 1
      /\ IsSystemMessage(c.input[1])
      /\ c.input[1].content = c.prompt

\* A message list as (type, content) pairs, ids left out.
TypeContent(msgs) == [i \in DOMAIN msgs |-> <<msgs[i].type, msgs[i].content>>]

\* conversation_history as the claim reads it: role "user" is a human message,
\* any other role an AI message, in the given order.
HistoryAsPairs(history) ==
    [i \in DOMAIN history.msgs |->
        <<IF history.msgs[i].role = "user" THEN "human" ELSE "ai", history.msgs[i].content>>]

\* C11: conversation_history is used only when the thread has no persisted
\* messages.  If the checkpoint of the thread held a message when the call read
\* it, the human/AI messages the model is invoked with are the persisted
\* human/AI messages followed by the current query, whatever history the
\* request carried; if it held none and a history was given, they are the
\* history entries (role "user" as human, any other role as AI, in order)
\* followed by the current query.
C11_HistoryOnlyWhenFresh ==
    \A c \in Invoked :
      LET sent  == TypeContent(NonSystem(c.input))
          query == <<"human", c.query>>
      IN  IF c.state # <<>>
          THEN sent = TypeContent(NonSystem(c.state)) \o <<query>>
          ELSE c.history.given => sent = HistoryAsPairs(c.history) \o <<query>>

----------------------------------------------------------------------------
(* Claims about the REST layer *)

Authorized(auth) == HasBearer(auth) /\ auth.credentials = API_SECRET_KEY

\* C1: a POST to /analyze or /chat without a bearer token, or with a bearer token
\* other than SECRET_KEY, is answered 401 and reaches no crawl, index, model or
\* checkpoint; a request whose token equals SECRET_KEY is never answered 401.
C1_UnauthorizedIs401 ==
    \A i \in DOMAIN api_log :
       LET e == api_log[i] IN
       /\ ~Authorized(e.auth) => e.status = 401 /\ e.effects = {}
       /\ Authorized(e.auth) => e.status # 401

\* C6: an authorized POST /chat calls chat_interaction with the request's url,
\* query, thread_id and history, and returns 200 with a ChatResponse that echoes
\* url and query and carries the model's reply.
C6_ChatAnswers ==
    \A i \in DOMAIN api_log :
       LET e == api_log[i] IN
       (e.endpoint = "chat" /\ Authorized(e.auth) /\ e.status # 429) =>
          /\ e.status = 200
          /\ e.call.made
          /\ e.call.keywords = {"url", "query", "thread_id", "history"}
          /\ e.body.url = e.payload.url
          /\ e.body.user_query = e.payload.query

====
